---- MODULE Spec2Model ----
(***************************************************************************)
(* A model of web_scrapper.py: the WebScraper class (fetch_page, the nine  *)
(* extract_* methods, scrape_all, save_to_json, print_summary) and main(). *)
(*                                                                         *)
(* Representation.                                                         *)
(*   - A Python str taken from the page is a sequence of one-character     *)
(*     strings, so that strip(), splitlines() and split("  ") are computed *)
(*     and not assumed.  None is a value no str can equal.                 *)
(*   - A URL str is kept in the form urlparse() gives it: scheme, netloc,  *)
(*     path (the list path.split('/')) and fragment.                       *)
(*   - The parsed document (self.soup) is the sequence of its nodes in     *)
(*     document order, each with the index of its parent (0: the document  *)
(*     itself).  A text node has tag "#text".                              *)
(***************************************************************************)
EXTENDS Integers, Sequences, FiniteSets, TLC

VARIABLES
    argv,           \* sys.argv
    page,           \* the document the parser builds from what the URL serves
    scriptStrings,  \* whether Tag.get_text() of the installed bs4 returns the
                    \* strings inside script and style (bs4 before 4.9 does)
    pc,             \* where main() is
    url,            \* WebScraper.url
    output_file,    \* main's output_file
    soup,           \* WebScraper.soup: <<>> is None, <<doc>> a parsed document
    gets,           \* number of requests.get calls made
    all_data,       \* the dict scrape_all is building
    data,           \* main's data: <<>> is None, <<d>> a dict
    summary,        \* what print_summary printed: <<>> nothing, <<lines>>
    files,          \* the files written: <<>> none, <<[name, content]>>
    exit_code       \* the process's exit status; Running until it exits

vars == <<argv, page, scriptStrings, pc, url, output_file, soup, gets,
          all_data, data, summary, files, exit_code>>

\* ------------------------------------------------------------------ bounds

\* Largest number of nodes of an enumerated page, per family of pages.
MaxNodes == 3
MaxMetaNodes == 3
MaxTableNodes == 4
MaxListNodes == 5
MaxImageNodes == 2

\* ------------------------------------------------------------- Python str

None == <<"None">>

Truthy(v) == v # None /\ v # <<>>

IsSpace(c) == c \in {" ", "\n", "\t"}

RECURSIVE LStrip(_)
LStrip(s) ==
    IF s # <<>> /\ IsSpace(Head(s)) THEN LStrip(Tail(s)) ELSE s

RECURSIVE RStrip(_)
RStrip(s) ==
    IF s # <<>> /\ IsSpace(s[Len(s)]) THEN RStrip(SubSeq(s, 1, Len(s) - 1)) ELSE s

\* str.strip()
Strip(s) == RStrip(LStrip(s))

RECURSIVE SplitLinesFrom(_, _, _)
SplitLinesFrom(s, cur, acc) ==
    IF s = <<>> THEN (IF cur = <<>> THEN acc ELSE Append(acc, cur))
    ELSE IF Head(s) = "\n" THEN SplitLinesFrom(Tail(s), <<>>, Append(acc, cur))
    ELSE SplitLinesFrom(Tail(s), Append(cur, Head(s)), acc)

\* str.splitlines(): no entry for the empty remainder after a final line break
SplitLines(s) == SplitLinesFrom(s, <<>>, <<>>)

RECURSIVE SplitTwoSpacesFrom(_, _, _)
SplitTwoSpacesFrom(s, cur, acc) ==
    IF s = <<>> THEN Append(acc, cur)
    ELSE IF Len(s) >= 2 /\ s[1] = " " /\ s[2] = " "
         THEN SplitTwoSpacesFrom(SubSeq(s, 3, Len(s)), <<>>, Append(acc, cur))
    ELSE SplitTwoSpacesFrom(Tail(s), Append(cur, Head(s)), acc)

\* str.split("  ")
SplitTwoSpaces(s) == SplitTwoSpacesFrom(s, <<>>, <<>>)

RECURSIVE Concat(_)
Concat(ss) == IF ss = <<>> THEN <<>> ELSE Head(ss) \o Concat(Tail(ss))

RECURSIVE JoinLines(_)
\* '\n'.join(ss)
JoinLines(ss) ==
    IF ss = <<>> THEN <<>>
    ELSE IF Len(ss) = 1 THEN ss[1]
    ELSE ss[1] \o <<"\n">> \o JoinLines(Tail(ss))

Min(S) == CHOOSE x \in S : \A y \in S : x <= y

RECURSIVE Sorted(_)
\* the numbers of S in increasing order
Sorted(S) == IF S = {} THEN <<>> ELSE <<Min(S)>> \o Sorted(S \ {Min(S)})

Range(f) == {f[i] : i \in DOMAIN f}

\* ---------------------------------------------------------- Document Model

TextTag == "#text"
VoidTags == {"meta", "img"}
RawTextTags == {"script", "style", "title"}

Elem(tag) == [tag |-> tag, attrs |-> <<>>, text |-> <<>>]
ElemA(tag, attrs) == [tag |-> tag, attrs |-> attrs, text |-> <<>>]
Text(s) == [tag |-> TextTag, attrs |-> <<>>, text |-> s]

Placed(kind, p) ==
    [tag |-> kind.tag, attrs |-> kind.attrs, text |-> kind.text, parent |-> p]

RECURSIVE AncestorsOrSelf(_, _)
AncestorsOrSelf(doc, i) ==
    IF i = 0 THEN {} ELSE {i} \cup AncestorsOrSelf(doc, doc[i].parent)

Ancestors(doc, i) == AncestorsOrSelf(doc, doc[i].parent)

\* The parser puts a node under an element that is still open: the document
\* or an ancestor-or-self of the node before it.  Void elements and text
\* nodes hold nothing; script, style and title hold text only.
MayHold(doc, p, kind) ==
    \/ p = 0
    \/ /\ doc[p].tag # TextTag
       /\ doc[p].tag \notin VoidTags
       /\ doc[p].tag \in RawTextTags => kind.tag = TextTag

OpenAt(doc) == {0} \cup (IF doc = <<>> THEN {} ELSE AncestorsOrSelf(doc, Len(doc)))

\* Two text nodes in a row under one parent are one text node to the parser.
Adjacent(doc, p, kind) ==
    /\ kind.tag = TextTag
    /\ doc # <<>>
    /\ doc[Len(doc)].tag = TextTag
    /\ doc[Len(doc)].parent = p

RECURSIVE PagesOver(_, _)
\* every document of at most n nodes over the node kinds Kinds
PagesOver(Kinds, n) ==
    IF n = 0 THEN {<<>>}
    ELSE LET S == PagesOver(Kinds, n - 1)
         IN S \cup {Append(d, Placed(k, p)) :
                      <<d, k, p>> \in {t \in S \X Kinds \X (0..(n - 1)) :
                                          /\ Len(t[1]) = n - 1
                                          /\ t[3] \in OpenAt(t[1])
                                          /\ MayHold(t[1], t[3], t[2])
                                          /\ ~Adjacent(t[1], t[3], t[2])}}

RECURSIVE Flatten(_, _, _)
\* a forest written as nested <<kind, children>> pairs, in document order,
\* placed under node `parent` when `count` nodes precede it
Flatten(forest, parent, count) ==
    IF forest = <<>> THEN <<>>
    ELSE LET first == <<Placed(forest[1][1], parent)>>
                        \o Flatten(forest[1][2], count + 1, count + 1)
         IN first \o Flatten(Tail(forest), parent, count + Len(first))

Page(forest) == Flatten(forest, 0, 0)

\* ------------------------------------------------------- tree navigation

Nodes(doc) == 1..Len(doc)

IsUnder(doc, j, i) == IF i = 0 THEN TRUE ELSE i \in Ancestors(doc, j)

\* Tag.find_all(tags) below node i (0: the document): descendants in
\* document order
FindAll(doc, i, tags) ==
    Sorted({j \in Nodes(doc) : doc[j].tag \in tags /\ IsUnder(doc, j, i)})

\* Tag.find_all(tags, recursive=False): children only
FindChildren(doc, i, tags) ==
    Sorted({j \in Nodes(doc) : doc[j].tag \in tags /\ doc[j].parent = i})

\* Tag.find(tag): the first match or None (0)
Find(doc, i, tags) ==
    LET all == FindAll(doc, i, tags) IN IF all = <<>> THEN 0 ELSE all[1]

\* Tag.get(name, default)
Get(node, name, default) ==
    IF name \in DOMAIN node.attrs THEN node.attrs[name] ELSE default

\* --------------------------------------------------------------- urljoin

EmptyUrl == [scheme |-> "", netloc |-> "", path |-> <<"">>, fragment |-> ""]

UsesRelative == {"http", "https", "ftp", "file", ""}
UsesNetloc == {"http", "https", "ftp", "file", ""}

RECURSIVE ResolveDots(_, _)
\* the loop over segments: '..' pops (nothing to pop: ignored), '.' is skipped
ResolveDots(segments, resolved) ==
    IF segments = <<>> THEN resolved
    ELSE IF Head(segments) = ".."
         THEN ResolveDots(Tail(segments),
                          IF resolved = <<>> THEN resolved
                          ELSE SubSeq(resolved, 1, Len(resolved) - 1))
    ELSE IF Head(segments) = "." THEN ResolveDots(Tail(segments), resolved)
    ELSE ResolveDots(Tail(segments), Append(resolved, Head(segments)))

\* segments[1:-1] = filter(None, segments[1:-1])
DropEmptyInner(segments) ==
    IF Len(segments) <= 2 THEN segments
    ELSE <<segments[1]>>
         \o SelectSeq(SubSeq(segments, 2, Len(segments) - 1), LAMBDA x : x # "")
         \o <<segments[Len(segments)]>>

\* urlunparse: a path that follows a netloc starts with '/'
UrlUnparse(scheme, netloc, path, fragment) ==
    [scheme |-> scheme, netloc |-> netloc,
     path |-> IF netloc # "" /\ path # <<"">> /\ path[1] # ""
              THEN <<"">> \o path ELSE path,
     fragment |-> fragment]

\* urllib.parse.urljoin(base, ref), query and params left out
UrlJoin(base, ref) ==
    IF base = EmptyUrl THEN ref
    ELSE IF ref = EmptyUrl THEN base
    ELSE LET scheme == IF ref.scheme = "" THEN base.scheme ELSE ref.scheme
             base_parts == IF base.path[Len(base.path)] # ""
                           THEN SubSeq(base.path, 1, Len(base.path) - 1)
                           ELSE base.path
             segments == IF Len(ref.path) >= 2 /\ ref.path[1] = ""
                         THEN ref.path
                         ELSE DropEmptyInner(base_parts \o ref.path)
             resolved == ResolveDots(segments, <<>>)
                           \o (IF segments[Len(segments)] \in {".", ".."}
                               THEN <<"">> ELSE <<>>)
         IN IF scheme # base.scheme \/ scheme \notin UsesRelative THEN ref
            ELSE IF scheme \in UsesNetloc /\ ref.netloc # ""
                 THEN UrlUnparse(scheme, ref.netloc, ref.path, ref.fragment)
            ELSE IF ref.path = <<"">>
                 THEN UrlUnparse(scheme, base.netloc, base.path, ref.fragment)
            ELSE UrlUnparse(scheme, base.netloc,
                            IF resolved \in {<<>>, <<"">>} THEN <<"", "">>
                            ELSE resolved,
                            ref.fragment)

\* ------------------------------------------------------------ extractors

ScriptTags == {"script", "style"}

\* the strings Tag.get_text() of node i (0: the document) joins
Strings(doc, i) ==
    Sorted({j \in Nodes(doc) :
              /\ doc[j].tag = TextTag
              /\ IsUnder(doc, j, i)
              /\ \/ scriptStrings
                 \/ doc[j].parent = 0
                 \/ doc[doc[j].parent].tag \notin ScriptTags})

MapSeq(s, F(_)) == [k \in 1..Len(s) |-> F(s[k])]

\* Tag.get_text()
GetText(doc, i) == Concat(MapSeq(Strings(doc, i), LAMBDA j : doc[j].text))

\* Tag.get_text(strip=True): each string stripped, the empty ones skipped
GetTextStrip(doc, i) ==
    Concat(MapSeq(Strings(doc, i), LAMBDA j : Strip(doc[j].text)))

\* script.decompose() for every script and style: the nodes that stay keep
\* their order, and their parents are renumbered
Decompose(doc, tags) ==
    LET gone == {j \in Nodes(doc) :
                   \E a \in AncestorsOrSelf(doc, j) : doc[a].tag \in tags}
        kept == Sorted(Nodes(doc) \ gone)
        NewIdx(i) == Cardinality({k \in Nodes(doc) \ gone : k <= i})
    IN [k \in 1..Len(kept) |->
          [doc[kept[k]] EXCEPT !.parent = NewIdx(doc[kept[k]].parent)]]

HeadingTags == {"h1", "h2", "h3", "h4", "h5", "h6"}

\* extract_text_content's return value
TextContentOf(doc) ==
    LET text == GetText(Decompose(doc, ScriptTags), 0)
        lines == MapSeq(SplitLines(text), Strip)
        chunks == Concat(MapSeq(lines,
                      LAMBDA line : MapSeq(SplitTwoSpaces(line), Strip)))
    IN JoinLines(SelectSeq(chunks, LAMBDA chunk : chunk # <<>>))

\* what extract_text_content leaves in self.soup
SoupAfterTextContent(sp) ==
    IF sp = <<>> THEN sp ELSE <<Decompose(sp[1], ScriptTags)>>

extract_text_content(sp) ==
    IF sp = <<>> THEN <<>> ELSE TextContentOf(sp[1])

extract_headings(sp) ==
    IF sp = <<>> THEN <<>>
    ELSE LET doc == sp[1]
         IN [tag \in {t \in HeadingTags : FindAll(doc, 0, {t}) # <<>>} |->
               MapSeq(FindAll(doc, 0, {tag}), LAMBDA h : GetTextStrip(doc, h))]

extract_links(sp) ==
    IF sp = <<>> THEN <<>>
    ELSE LET doc == sp[1]
             anchors == SelectSeq(FindAll(doc, 0, {"a"}),
                                  LAMBDA a : "href" \in DOMAIN doc[a].attrs)
         IN MapSeq(anchors, LAMBDA a :
               [text |-> GetTextStrip(doc, a),
                url |-> UrlJoin(url, doc[a].attrs["href"]),
                relative_url |-> doc[a].attrs["href"]])

\* the headers of table t: the th elements below the first thead below t
TableHeaders(doc, t) ==
    LET thead == Find(doc, t, {"thead"})
    IN IF thead # 0
       THEN MapSeq(FindAll(doc, thead, {"th"}), LAMBDA th : GetTextStrip(doc, th))
       ELSE <<>>

\* the rows of table t: for every tr below the first tbody below t, or below
\* t when it has none, the td and th below that tr; empty rows left out
TableRows(doc, t) ==
    LET tbody == Find(doc, t, {"tbody"})
        rows_container == IF tbody # 0 THEN tbody ELSE t
        rows == MapSeq(FindAll(doc, rows_container, {"tr"}), LAMBDA tr :
                   MapSeq(FindAll(doc, tr, {"td", "th"}),
                          LAMBDA td : GetTextStrip(doc, td)))
    IN SelectSeq(rows, LAMBDA row : row # <<>>)

\* extract_tables numbering the tables from 1
extract_tables_from_one(sp) ==
    IF sp = <<>> THEN <<>>
    ELSE LET doc == sp[1]
             found == FindAll(doc, 0, {"table"})
         IN [k \in 1..Len(found) |->
               [table_index |-> k,
                headers |-> TableHeaders(doc, found[k]),
                rows |-> TableRows(doc, found[k])]]

extract_tables(sp) ==
    IF sp = <<>> THEN <<>>
    ELSE LET doc == sp[1]
             found == FindAll(doc, 0, {"table"})
         IN [k \in 1..Len(found) |->
               [table_index |-> k - 1,
                headers |-> TableHeaders(doc, found[k]),
                rows |-> TableRows(doc, found[k])]]

Title == <<"t", "i", "t", "l", "e">>
MetaKey(name) == <<"m", "e", "t", "a", "_">> \o name

\* metadata[key] = value
Put(dict, key, value) ==
    [k \in DOMAIN dict \cup {key} |-> IF k = key THEN value ELSE dict[k]]

\* a or b
Or(a, b) == IF Truthy(a) THEN a ELSE b

RECURSIVE MetaLoopFirstWins(_, _, _)
\* the loop over meta_tags keeping the first value of a key
MetaLoopFirstWins(doc, meta_tags, metadata) ==
    IF meta_tags = <<>> THEN metadata
    ELSE LET meta == doc[Head(meta_tags)]
             name == Or(Get(meta, "name", None), Get(meta, "property", None))
             content == Get(meta, "content", None)
         IN MetaLoopFirstWins(doc, Tail(meta_tags),
               IF Truthy(name) /\ Truthy(content)
                  /\ MetaKey(name) \notin DOMAIN metadata
               THEN Put(metadata, MetaKey(name), content)
               ELSE metadata)

RECURSIVE MetaLoop(_, _, _)
\* the loop over meta_tags
MetaLoop(doc, meta_tags, metadata) ==
    IF meta_tags = <<>> THEN metadata
    ELSE LET meta == doc[Head(meta_tags)]
             name == Or(Get(meta, "name", None), Get(meta, "property", None))
             content == Get(meta, "content", None)
         IN MetaLoop(doc, Tail(meta_tags),
                     IF Truthy(name) /\ Truthy(content)
                     THEN Put(metadata, MetaKey(name), content)
                     ELSE metadata)

extract_metadata(sp) ==
    IF sp = <<>> THEN <<>>
    ELSE LET doc == sp[1]
             title_tag == Find(doc, 0, {"title"})
             titled == IF title_tag # 0
                       THEN Put(<<>>, Title, GetTextStrip(doc, title_tag))
                       ELSE <<>>
         IN MetaLoop(doc, FindAll(doc, 0, {"meta"}), titled)

extract_code_blocks(sp) ==
    IF sp = <<>> THEN <<>>
    ELSE LET doc == sp[1]
             found == FindAll(doc, 0, {"pre", "code"})
         IN [k \in 1..Len(found) |->
               [index |-> k - 1,
                type |-> doc[found[k]].tag,
                content |-> GetText(doc, found[k])]]

extract_paragraphs(sp) ==
    IF sp = <<>> THEN <<>>
    ELSE MapSeq(FindAll(sp[1], 0, {"p"}), LAMBDA p : GetTextStrip(sp[1], p))

\* the items of list element l: the text of each li child
ListItems(doc, l) ==
    MapSeq(FindChildren(doc, l, {"li"}), LAMBDA li : GetTextStrip(doc, li))

\* lists_data[tag]: the item lists of the tag's elements, the empty ones
\* left out
ListsOf(doc, tag) ==
    SelectSeq(MapSeq(FindAll(doc, 0, {tag}), LAMBDA l : ListItems(doc, l)),
              LAMBDA items : items # <<>>)

\* extract_lists adding a key only when a list of that tag has items
extract_lists_sparse(sp) ==
    IF sp = <<>> THEN <<>>
    ELSE [tag \in {t \in {"ul", "ol"} : ListsOf(sp[1], t) # <<>>} |->
            ListsOf(sp[1], tag)]

extract_lists(sp) ==
    IF sp = <<>> THEN <<>>
    ELSE [ul |-> ListsOf(sp[1], "ul"), ol |-> ListsOf(sp[1], "ol")]

extract_images(sp) ==
    IF sp = <<>> THEN <<>>
    ELSE LET doc == sp[1]
         IN MapSeq(FindAll(doc, 0, {"img"}), LAMBDA img :
               [alt |-> Get(doc[img], "alt", <<>>),
                src |-> UrlJoin(url, Get(doc[img], "src", EmptyUrl)),
                title |-> Get(doc[img], "title", <<>>)])

\* ----------------------------------------------------------- scrape_all

\* scrape_all with 'full_text' written first in the dict display
ScrapeOrderTextFirst ==
    <<"full_text", "metadata", "headings", "paragraphs", "links", "images",
      "tables", "lists", "code_blocks">>

\* the keys of all_data after 'url', in the order the dict display
\* evaluates them
ScrapeOrder ==
    <<"metadata", "headings", "paragraphs", "links", "images", "tables",
      "lists", "code_blocks", "full_text">>

ResultKeys == {"url"} \cup Range(ScrapeOrder)

\* the key whose value scrape_all evaluates next
NextKey == ScrapeOrder[Cardinality(DOMAIN all_data)]

\* one entry of the dict display is evaluated; after the last one scrape_all
\* returns all_data to main
Evaluate(value, soupAfter) ==
    /\ soup' = soupAfter
    /\ all_data' = all_data @@ (NextKey :> value)
    /\ IF DOMAIN all_data' = ResultKeys
       THEN pc' = "returned" /\ data' = <<all_data'>>
       ELSE pc' = pc /\ data' = data
    /\ UNCHANGED <<argv, page, scriptStrings, url, output_file, gets,
                   summary, files, exit_code>>

ExtractMetadata ==
    /\ pc = "scrape_all" /\ NextKey = "metadata"
    /\ Evaluate(extract_metadata(soup), soup)

ExtractHeadings ==
    /\ pc = "scrape_all" /\ NextKey = "headings"
    /\ Evaluate(extract_headings(soup), soup)

ExtractParagraphs ==
    /\ pc = "scrape_all" /\ NextKey = "paragraphs"
    /\ Evaluate(extract_paragraphs(soup), soup)

ExtractLinks ==
    /\ pc = "scrape_all" /\ NextKey = "links"
    /\ Evaluate(extract_links(soup), soup)

ExtractImages ==
    /\ pc = "scrape_all" /\ NextKey = "images"
    /\ Evaluate(extract_images(soup), soup)

ExtractTables ==
    /\ pc = "scrape_all" /\ NextKey = "tables"
    /\ Evaluate(extract_tables(soup), soup)

ExtractLists ==
    /\ pc = "scrape_all" /\ NextKey = "lists"
    /\ Evaluate(extract_lists(soup), soup)

ExtractCodeBlocks ==
    /\ pc = "scrape_all" /\ NextKey = "code_blocks"
    /\ Evaluate(extract_code_blocks(soup), soup)

\* the one extractor that changes self.soup
ExtractTextContent ==
    /\ pc = "scrape_all" /\ NextKey = "full_text"
    /\ Evaluate(extract_text_content(soup), SoupAfterTextContent(soup))

\* ------------------------------------------------------------ fetch_page

FetchFailures == {"Timeout", "ConnectionError", "HTTPError"}

\* requests.get and raise_for_status succeed, the response is parsed;
\* scrape_all goes on to build all_data, 'url' first
FetchPageOk ==
    /\ pc = "fetch_page"
    /\ gets' = gets + 1
    /\ soup' = <<page>>
    /\ all_data' = ("url" :> url)
    /\ pc' = "scrape_all"
    /\ UNCHANGED <<argv, page, scriptStrings, url, output_file, data,
                   summary, files, exit_code>>

\* scrape_all calling fetch_page without looking at what it returns
FetchPageFailsUnchecked ==
    /\ pc = "fetch_page"
    /\ \E e \in FetchFailures : gets' = gets + 1
    /\ all_data' = ("url" :> url)
    /\ pc' = "scrape_all"
    /\ UNCHANGED <<argv, page, scriptStrings, url, output_file, soup, data,
                   summary, files, exit_code>>

\* a RequestException: fetch_page returns False and scrape_all None
FetchPageFails ==
    /\ pc = "fetch_page"
    /\ \E e \in FetchFailures : gets' = gets + 1
    /\ data' = <<>>
    /\ pc' = "returned"
    /\ UNCHANGED <<argv, page, scriptStrings, url, output_file, soup,
                   all_data, summary, files, exit_code>>

\* --------------------------------------------------------- print_summary

NA == <<"N", "/", "A">>
Description == <<"d", "e", "s", "c", "r", "i", "p", "t", "i", "o", "n">>

\* dict.get(key, default)
DictGet(dict, key, default) == IF key \in DOMAIN dict THEN dict[key] ELSE default

\* len(dict) in place of the sum
SumLenLevels(dict, keys) == Cardinality(keys)

RECURSIVE SumLen(_, _)
\* sum(len(v) for v in dict.values())
SumLen(dict, keys) ==
    IF keys = {} THEN 0
    ELSE LET k == CHOOSE x \in keys : TRUE
         IN Len(dict[k]) + SumLen(dict, keys \ {k})

\* the subscriptions print_summary makes: one that fails raises KeyError
SummaryRaises(d) ==
    \/ {"url", "metadata", "headings", "paragraphs", "links", "images",
        "tables", "code_blocks", "lists", "full_text"} \ DOMAIN d # {}
    \/ {"ul", "ol"} \ DOMAIN d["lists"] # {}

\* the lines print_summary prints, by their labels
SummaryLines(d) ==
    ("URL" :> d["url"])
    @@ (IF d["metadata"] # <<>>
        THEN ("Title" :> DictGet(d["metadata"], Title, NA))
             @@ ("Description" :> DictGet(d["metadata"], MetaKey(Description), NA))
        ELSE <<>>)
    @@ ("Headings found" :> SumLen(d["headings"], DOMAIN d["headings"]))
    @@ ("Paragraphs found" :> Len(d["paragraphs"]))
    @@ ("Links found" :> Len(d["links"]))
    @@ ("Images found" :> Len(d["images"]))
    @@ ("Tables found" :> Len(d["tables"]))
    @@ ("Code blocks found" :> Len(d["code_blocks"]))
    @@ ("Lists found" :> Len(d["lists"]["ul"]) + Len(d["lists"]["ol"]))
    @@ ("Total text content" :> Len(d["full_text"]))

\* main's `if data:` and print_summary's `if not data:`
DataTruthy(dt) == dt # <<>> /\ DOMAIN dt[1] # {}

\* ---------------------------------------------------------- save_to_json

DefaultSuffix == "_scraped_data.json"

\* the file name: the one given, or the URL's netloc and the suffix
FileName(filename) ==
    IF filename = "None" THEN <<url.netloc, DefaultSuffix>> ELSE <<filename>>

\* json.dump(data, f, indent=2, ensure_ascii=False): a dict with str keys, its
\* lists, strs and ints are written as they are, key for key
JsonDump(d) == d

\* ------------------------------------------------------------------ main

Running == -1

\* len(sys.argv) < 2: the usage message and sys.exit(1)
MainUsage ==
    /\ pc = "main"
    /\ Len(argv) < 2
    /\ pc' = "exit"
    /\ exit_code' = 1
    /\ UNCHANGED <<argv, page, scriptStrings, url, output_file, soup, gets,
                   all_data, data, summary, files>>

\* url and output_file read, WebScraper(url) made, scrape_all called
MainScrape ==
    /\ pc = "main"
    /\ Len(argv) >= 2
    /\ url' = argv[2]
    /\ output_file' = IF Len(argv) > 2 THEN argv[3] ELSE "None"
    /\ pc' = "fetch_page"
    /\ UNCHANGED <<argv, page, scriptStrings, soup, gets, all_data, data,
                   summary, files, exit_code>>

\* `if data:` holds and print_summary(data) runs; a KeyError ends the process
PrintSummary ==
    /\ pc = "returned"
    /\ DataTruthy(data)
    /\ IF SummaryRaises(data[1])
       THEN pc' = "exit" /\ exit_code' = 1 /\ summary' = summary
       ELSE pc' = "save_to_json" /\ exit_code' = exit_code
            /\ summary' = <<SummaryLines(data[1])>>
    /\ UNCHANGED <<argv, page, scriptStrings, url, output_file, soup, gets,
                   all_data, data, files>>

\* save_to_json writes the file; main prints its last line and returns
SaveToJson ==
    /\ pc = "save_to_json"
    /\ files' = <<[name |-> FileName(output_file), content |-> JsonDump(data[1])]>>
    /\ pc' = "exit"
    /\ exit_code' = 0
    /\ UNCHANGED <<argv, page, scriptStrings, url, output_file, soup, gets,
                   all_data, data, summary>>

\* open or json.dump raises: save_to_json reports it, main goes on as above
SaveToJsonFails ==
    /\ pc = "save_to_json"
    /\ pc' = "exit"
    /\ exit_code' = 0
    /\ UNCHANGED <<argv, page, scriptStrings, url, output_file, soup, gets,
                   all_data, data, summary, files>>

\* `if data:` fails: "Scraping failed!" and sys.exit(1)
MainFailed ==
    /\ pc = "returned"
    /\ ~DataTruthy(data)
    /\ pc' = "exit"
    /\ exit_code' = 1
    /\ UNCHANGED <<argv, page, scriptStrings, url, output_file, soup, gets,
                   all_data, data, summary, files>>

\* ------------------------------------------------------------ the inputs

Url(scheme, netloc, path, fragment) ==
    [scheme |-> scheme, netloc |-> netloc, path |-> path, fragment |-> fragment]

\* http://h/a/b and http://h/d/
Urls == {Url("http", "h", <<"", "a", "b">>, ""), Url("http", "h", <<"", "d", "">>, "")}

\* "../x", "/x", "x", "//o/x", "#f", "" and "https://o/x"
Refs ==
    {Url("", "", <<"..", "x">>, ""), Url("", "", <<"", "x">>, ""),
     Url("", "", <<"x">>, ""), Url("", "o", <<"", "x">>, ""),
     Url("", "", <<"">>, "f"), EmptyUrl, Url("https", "o", <<"", "x">>, "")}

A == <<"A">>
B == <<"B">>

GeneralKinds ==
    {Elem("p"), Elem("h1"), Elem("h2"), Elem("script"), Elem("title"),
     ElemA("meta", [name |-> Description, content |-> A]),
     Text(<<"a">>), Text(<<" ", "b", "\n">>)}

MetaKinds ==
    {Elem("title"), Text(<<"a">>),
     ElemA("meta", [name |-> Description, content |-> A]),
     ElemA("meta", [property |-> Description, content |-> B]),
     ElemA("meta", [name |-> Description, content |-> <<>>]),
     ElemA("meta", [name |-> <<>>, property |-> <<"k">>, content |-> B]),
     ElemA("meta", [name |-> <<"k">>, property |-> Description, content |-> A]),
     ElemA("meta", [content |-> A]),
     ElemA("meta", [name |-> <<"k">>])}

TableKinds ==
    {Elem("table"), Elem("thead"), Elem("tbody"), Elem("tr"), Elem("td"),
     Elem("th"), Text(<<"a">>)}

ListKinds == {Elem("ul"), Elem("ol"), Elem("li"), Text(<<"a">>)}

ImageKinds ==
    {ElemA("img", <<>>), ElemA("img", [alt |-> A]),
     ElemA("img", [src |-> Url("", "", <<"..", "x">>, "")]),
     ElemA("img", [src |-> EmptyUrl, title |-> B]),
     ElemA("img", [alt |-> A, src |-> Url("", "o", <<"", "x">>, ""), title |-> B])}
    \cup {ElemA("a", [href |-> r]) : r \in Refs} \cup {Elem("a")}

\* a page with one of everything the extractors look for
SamplePage ==
    Page(<< <<Elem("title"), << <<Text(<<" ", "T">>), <<>>>> >> >>,
            <<ElemA("meta", [name |-> Description, content |-> A]), <<>>>>,
            <<Elem("script"), << <<Text(<<"x", "\n", "y">>), <<>>>> >> >>,
            <<Elem("h1"), << <<Text(<<"H">>), <<>>>> >> >>,
            <<Elem("p"), << <<Text(<<"a", " ", " ", "b">>), <<>>>>,
                           <<ElemA("a", [href |-> Url("", "", <<"..", "x">>, "")]),
                             << <<Text(<<"l">>), <<>>>> >> >>,
                           <<ElemA("img", [alt |-> A]), <<>>>> >> >>,
            <<Elem("table"),
              << <<Elem("thead"), << <<Elem("tr"),
                     << <<Elem("th"), << <<Text(<<"h">>), <<>>>> >> >> >> >> >> >>,
                 <<Elem("tbody"), << <<Elem("tr"),
                     << <<Elem("td"), << <<Text(<<"c">>), <<>>>> >> >> >> >> >> >> >> >>,
            <<Elem("ul"), << <<Elem("li"), << <<Text(<<"i">>), <<>>>> >> >> >> >>,
            <<Elem("ol"), << <<Elem("li"), << <<Text(<<"j">>), <<>>>> >> >> >> >>,
            <<Elem("pre"), << <<Elem("code"), << <<Text(<<" ", "k">>), <<>>>> >> >> >> >> >>)

\* the table of 2 header cells and 3 rows of 2 cells
Cell(tag, s) == <<Elem(tag), << <<Text(s), <<>>>> >> >>
Row(tag, s, t) == <<Elem("tr"), <<Cell(tag, s), Cell(tag, t)>> >>
SampleTable ==
    Page(<< <<Elem("table"),
              << <<Elem("thead"), <<Row("th", <<"h", "1">>, <<"h", "2">>)>> >>,
                 <<Elem("tbody"), <<Row("td", <<"1", "1">>, <<"1", "2">>),
                                    Row("td", <<"2", "1">>, <<"2", "2">>),
                                    Row("td", <<"3", "1">>, <<"3", "2">>)>> >> >> >> >>)

Samples == {SamplePage, SampleTable}

Node(kind, children) == <<kind, children>>

\* <ul><li>A<ul><li>B</li></ul></li></ul>
NestedList ==
    Page(<<Node(Elem("ul"),
             <<Node(Elem("li"),
                 <<Node(Text(A), <<>>),
                   Node(Elem("ul"),
                      <<Node(Elem("li"), <<Node(Text(B), <<>>)>>)>>)>>)>>)>>)

\* <table><tr><td><table><thead><tr><th>H</th></tr></thead></table></td></tr></table>
NestedTable ==
    Page(<<Node(Elem("table"),
             <<Node(Elem("tr"),
                 <<Node(Elem("td"),
                     <<Node(Elem("table"),
                         <<Node(Elem("thead"),
                             <<Node(Elem("tr"), <<Cell("th", <<"H">>)>>)>>)>>)>>)>>)>>)>>)

Pages == PagesOver(GeneralKinds, MaxNodes) \cup Samples
MetaPages == PagesOver(MetaKinds, MaxMetaNodes)
TablePages == PagesOver(TableKinds, MaxTableNodes) \cup Samples \cup {NestedTable}
ListPages == PagesOver(ListKinds, MaxListNodes) \cup {NestedList}
ImagePages == PagesOver(ImageKinds, MaxImageNodes)

\* -------------------------------------------------------- specifications

\* the state when main() starts, for a family of pages
InitOver(pages, urls, libs) ==
    /\ argv \in {<<"prog">>} \cup {<<"prog", u>> : u \in urls}
                \cup {<<"prog", u, "out.json">> : u \in urls}
    /\ page \in pages
    /\ scriptStrings \in libs
    /\ pc = "main"
    /\ url = EmptyUrl
    /\ output_file = "None"
    /\ soup = <<>>
    /\ gets = 0
    /\ all_data = <<>>
    /\ data = <<>>
    /\ summary = <<>>
    /\ files = <<>>
    /\ exit_code = Running

Init == InitOver(Pages, Urls, BOOLEAN)

Next ==
    \/ MainUsage
    \/ MainScrape
    \/ FetchPageOk
    \/ FetchPageFails
    \/ ExtractMetadata
    \/ ExtractHeadings
    \/ ExtractParagraphs
    \/ ExtractLinks
    \/ ExtractImages
    \/ ExtractTables
    \/ ExtractLists
    \/ ExtractCodeBlocks
    \/ ExtractTextContent
    \/ PrintSummary
    \/ SaveToJson
    \/ SaveToJsonFails
    \/ MainFailed

Spec == Init /\ [][Next]_vars

\* the same program on pages of meta tags, of tables, of lists, of images
SpecMeta == InitOver(MetaPages, {CHOOSE u \in Urls : TRUE}, {FALSE}) /\ [][Next]_vars
SpecTables == InitOver(TablePages, {CHOOSE u \in Urls : TRUE}, {FALSE}) /\ [][Next]_vars
SpecLists == InitOver(ListPages, {CHOOSE u \in Urls : TRUE}, {FALSE}) /\ [][Next]_vars
SpecImages == InitOver(ImagePages, Urls, {FALSE}) /\ [][Next]_vars

\* ================================================================ claims

TenKeys ==
    {"url", "metadata", "headings", "paragraphs", "links", "images", "tables",
     "lists", "code_blocks", "full_text"}

\* the value extractor `key` gives on document sp
SliceOf(key, sp) ==
    CASE key = "metadata" -> extract_metadata(sp)
      [] key = "headings" -> extract_headings(sp)
      [] key = "paragraphs" -> extract_paragraphs(sp)
      [] key = "links" -> extract_links(sp)
      [] key = "images" -> extract_images(sp)
      [] key = "tables" -> extract_tables(sp)
      [] key = "lists" -> extract_lists(sp)
      [] key = "code_blocks" -> extract_code_blocks(sp)
      [] key = "full_text" -> extract_text_content(sp)

HasTag(doc, tags) == \E j \in Nodes(doc) : doc[j].tag \in tags

\* ---- C1
\* C1: every extractor is read-only: no step of scrape_all that runs an
\* extractor changes the parsed tree held in self.soup.
C1_ExtractorsReadOnly == [][pc = "scrape_all" => soup' = soup]_vars

\* ---- C2
\* C2: in every run of scrape_all, extract_text_content runs only after the
\* other eight extractors have returned: while full_text is not yet there the
\* tree is the tree as parsed, full_text is never there without the other
\* eight, and each of the eight slices is what its extractor gives on the
\* tree as parsed.
C2_TextContentRunsLast ==
    /\ (soup # <<>> /\ "full_text" \notin DOMAIN all_data) => soup = <<page>>
    /\ "full_text" \in DOMAIN all_data => DOMAIN all_data = TenKeys
    /\ \A key \in (DOMAIN all_data) \ {"url", "full_text"} :
          all_data[key] = SliceOf(key, <<page>>)

\* scrape_all has returned for a page with a script inside a paragraph, and
\* the script is gone from self.soup
C2_Witness ==
    /\ pc = "returned"
    /\ data # <<>>
    /\ \E j \in Nodes(page) :
          /\ page[j].tag = "script"
          /\ page[j].parent # 0
          /\ page[page[j].parent].tag = "p"
          /\ \E t \in Nodes(page) : page[t].parent = j
    /\ soup # <<page>>
    /\ ~HasTag(soup[1], {"script"})

\* ---- C3
FetchFailed == gets > 0 /\ soup = <<>>

\* C3: when the fetch fails, scrape_all returns None, no extractor runs,
\* nothing is printed by print_summary, no file is written, the GET is not
\* repeated, and the process exits with code 1.
C3_FetchFailureAborts ==
    /\ gets <= 1
    /\ FetchFailed =>
          /\ pc \in {"returned", "exit"}
          /\ data = <<>>
          /\ all_data = <<>>
          /\ summary = <<>>
          /\ files = <<>>
          /\ pc = "exit" => exit_code = 1

\* the process has exited after a failed fetch
C3_Witness == FetchFailed /\ pc = "exit" /\ exit_code = 1 /\ files = <<>>

\* ---- C4
\* C4: every result scrape_all returns has all ten fields, lists with its two
\* sequences; a page without paragraphs, tables or images gives those fields
\* as empty sequences; print_summary does not raise on any result and prints
\* 0 for the count of each empty field.
C4_AllFieldsPresent ==
    /\ data # <<>> =>
          /\ DOMAIN data[1] = TenKeys
          /\ DOMAIN data[1]["lists"] = {"ul", "ol"}
          /\ ~HasTag(page, {"p"}) => data[1]["paragraphs"] = <<>>
          /\ ~HasTag(page, {"table"}) => data[1]["tables"] = <<>>
          /\ ~HasTag(page, {"img"}) => data[1]["images"] = <<>>
          /\ pc \in {"save_to_json", "exit"} => summary # <<>>
          /\ pc = "exit" => exit_code = 0
    /\ summary # <<>> =>
          /\ ~HasTag(page, {"p"}) => summary[1]["Paragraphs found"] = 0
          /\ ~HasTag(page, {"table"}) => summary[1]["Tables found"] = 0
          /\ ~HasTag(page, {"img"}) => summary[1]["Images found"] = 0

\* the summary of the page without any element has been printed
C4_Witness ==
    /\ page = <<>>
    /\ pc = "exit"
    /\ summary # <<>>
    /\ summary[1]["Paragraphs found"] = 0
    /\ summary[1]["Lists found"] = 0
    /\ data[1]["full_text"] = <<>>

\* ---- C5
Written == files[1].content

CountsPrinted(lines, d) ==
    /\ lines["URL"] = d["url"]
    /\ lines["Headings found"]
          = Cardinality({j \in Nodes(page) : page[j].tag \in HeadingTags})
    /\ lines["Links found"] = Len(d["links"])
    /\ lines["Images found"] = Len(d["images"])
    /\ lines["Tables found"] = Len(d["tables"])
    /\ lines["Code blocks found"] = Len(d["code_blocks"])
    /\ lines["Lists found"] = Len(d["lists"]["ul"]) + Len(d["lists"]["ol"])
    /\ lines["Total text content"] = Len(d["full_text"])

DescriptionPrinted(lines, d) ==
    /\ {"Title", "Description"} \subseteq DOMAIN lines
    /\ lines["Description"]
          = IF MetaKey(Description) \in DOMAIN d["metadata"]
            THEN d["metadata"][MetaKey(Description)] ELSE NA

\* C10 as claimed: every summary has the URL, a title line and a description
\* line showing meta_description or the placeholder, also when the metadata
\* mapping is empty, and the counts.
C10_SummaryAsClaimed ==
    summary # <<>> =>
       /\ DescriptionPrinted(summary[1], data[1])
       /\ CountsPrinted(summary[1], data[1])

\* C10 (amended): every summary has the URL and the counts; when the metadata
\* mapping is not empty it has a title line and a description line showing
\* meta_description or the placeholder, and when the mapping is empty it has
\* neither line.
C10_Summary ==
    summary # <<>> =>
       /\ CountsPrinted(summary[1], data[1])
       /\ IF data[1]["metadata"] # <<>>
          THEN DescriptionPrinted(summary[1], data[1])
          ELSE {"Title", "Description"} \cap DOMAIN summary[1] = {}

\* a summary of a page with a title, no description and two headings of one
\* level has been printed
C10_Witness ==
    /\ summary # <<>>
    /\ DOMAIN data[1]["metadata"] = {Title}
    /\ summary[1]["Description"] = NA
    /\ summary[1]["Headings found"] = 2
    /\ DOMAIN data[1]["headings"] = {"h1"}

\* ---- C6
ListTags == {"ul", "ol"}

\* the text of item li without the text of the lists nested in it
OwnItemText(doc, li) ==
    LET own == {j \in Nodes(doc) :
                  /\ doc[j].tag = TextTag
                  /\ li \in Ancestors(doc, j)
                  /\ ~\E a \in Ancestors(doc, j) :
                        doc[a].tag \in ListTags /\ li \in Ancestors(doc, a)}
    IN Concat(MapSeq(Sorted(own), LAMBDA j : Strip(doc[j].text)))

ListsAsClaimed(doc, tag) ==
    SelectSeq(MapSeq(FindAll(doc, 0, {tag}), LAMBDA l :
                 MapSeq(FindChildren(doc, l, {"li"}),
                        LAMBDA li : OwnItemText(doc, li))),
              LAMBDA items : items # <<>>)

\* C6: the entry of a list element holds one string per li child, the text of
\* a nested list is not part of the parent item's text, a nested list has its
\* own entry, and a list element without li children has no entry.
C6_NestedListTextExcluded ==
    data # <<>> =>
       /\ data[1]["lists"]["ul"] = ListsAsClaimed(page, "ul")
       /\ data[1]["lists"]["ol"] = ListsAsClaimed(page, "ol")

\* ---- C7
\* the table node j lies in: its nearest table ancestor (0: none)
TableOf(doc, j) ==
    LET up == {a \in Ancestors(doc, j) : doc[a].tag = "table"}
    IN IF up = {} THEN 0 ELSE CHOOSE a \in up : \A b \in up : b <= a

\* the tags-elements below node i that are table t's own
OwnBelow(doc, t, i, tags) ==
    SelectSeq(FindAll(doc, i, tags), LAMBDA j : TableOf(doc, j) = t)

HeadersAsClaimed(doc, t) ==
    LET theads == OwnBelow(doc, t, t, {"thead"})
    IN IF theads = <<>> THEN <<>>
       ELSE MapSeq(OwnBelow(doc, t, theads[1], {"th"}),
                   LAMBDA th : GetTextStrip(doc, th))

RowsAsClaimed(doc, t) ==
    LET tbodies == OwnBelow(doc, t, t, {"tbody"})
        container == IF tbodies = <<>> THEN t ELSE tbodies[1]
        rows == MapSeq(OwnBelow(doc, t, container, {"tr"}), LAMBDA tr :
                   MapSeq(OwnBelow(doc, t, tr, {"td", "th"}),
                          LAMBDA td : GetTextStrip(doc, td)))
    IN SelectSeq(rows, LAMBDA row : row # <<>>)

\* C7: for every table element, headers come only from that table's header
\* section (empty without one) and rows only from that table's body section,
\* or from the table itself without one; a kept row lists its own cells in
\* document order, and rows without cells are dropped.
C7_TableSectionsAsClaimed ==
    data # <<>> =>
       LET found == FindAll(page, 0, {"table"})
       IN /\ Len(data[1]["tables"]) = Len(found)
          /\ \A k \in DOMAIN found :
                /\ data[1]["tables"][k]["headers"] = HeadersAsClaimed(page, found[k])
                /\ data[1]["tables"][k]["rows"] = RowsAsClaimed(page, found[k])

\* ---- C8
\* C8: one Image per img element in document order, alt and title default to
\* the empty string, src is the source joined to the page URL when the
\* element has one and the empty string when it has none.
C8_ImageSrcDefault ==
    data # <<>> =>
       LET imgs == FindAll(page, 0, {"img"})
       IN /\ Len(data[1]["images"]) = Len(imgs)
          /\ \A k \in DOMAIN imgs :
                LET img == page[imgs[k]]
                IN data[1]["images"][k] =
                      [alt |-> IF "alt" \in DOMAIN img.attrs THEN img.attrs["alt"] ELSE <<>>,
                       src |-> IF "src" \in DOMAIN img.attrs
                               THEN UrlJoin(url, img.attrs["src"]) ELSE EmptyUrl,
                       title |-> IF "title" \in DOMAIN img.attrs
                                 THEN img.attrs["title"] ELSE <<>>]

\* ---- C9
MetaTags(doc) == FindAll(doc, 0, {"meta"})

\* every value a name or property attribute of the page has
MetaNames(doc) ==
    UNION {{doc[j].attrs[a] : a \in {"name", "property"} \cap DOMAIN doc[j].attrs} :
             j \in Range(MetaTags(doc))}

Last(S) == CHOOSE k \in S : \A l \in S : l <= k

\* metadata has key meta_<n> exactly when Counts(k, n) holds of some meta tag
\* k, and its value is the content of the last of them
LastWins(metadata, doc, Counts(_, _)) ==
    \A n \in MetaNames(doc) \cup {<<>>} :
       LET S == {k \in DOMAIN MetaTags(doc) : Counts(k, n)}
       IN /\ MetaKey(n) \in DOMAIN metadata <=> S # {}
          /\ S # {} => metadata[MetaKey(n)] = doc[MetaTags(doc)[Last(S)]].attrs["content"]

====
